---- MODULE Spec2Model ----
(***************************************************************************)
(* The forwarding information base of ndn-riot (fib.c): two fixed pools,   *)
(* the entry pool _fib and the face-binding pool _fib_faces, and the       *)
(* operations ndn_fib_add, ndn_fib_lookup, ndn_fib_remove and              *)
(* ndn_fib_remove_face over them.                                          *)
(*                                                                         *)
(* Pointers are modelled by slot numbers: an entry pointer is 1..          *)
(* NDN_FIB_ENTRIES_NUMOF (0 is NULL), a binding pointer is 1..             *)
(* NDN_FIB_FACE_ENTRIES_NUMOF.  The singly linked list entry->fib_faces is *)
(* the sequence of the binding slots linked in it, head first.             *)
(***************************************************************************)
EXTENDS Integers, Sequences, FiniteSets, TLC

\* ------------------------------------------------------------------ sizes
\* Pool capacities: build-time configuration macros, set outside fib.c.  The
\* model is the build with two entry slots and three binding slots.
NDN_FIB_ENTRIES_NUMOF == 2
NDN_FIB_FACE_ENTRIES_NUMOF == 3
\* Faces of the face registry are 1..NumFaces.
NumFaces == 2
\* The reference count of a caller's name block at call entry is 1..MaxRef.
MaxRef == 2

EntrySlots == 1..NDN_FIB_ENTRIES_NUMOF
FaceSlots == 1..NDN_FIB_FACE_ENTRIES_NUMOF
Faces == 1..NumFaces

\* Names are sequences of components: /a = <<1>>, /a/b = <<1,2>>, /z = <<3>>.
\* Queries add /a/b/c = <<1,2,3>> and /a/x = <<1,3>>.
InsertNames == {<<1>>, <<1, 2>>, <<3>>}
QueryNames == {<<1, 2, 3>>, <<1, 3>>, <<3>>}

\* The NULL face reference, the NULL entry pointer and the NULL prefix.
NULL == 0
NoPrefix == <<0>>
\* A pointer value that designates no entry slot.
WildPtr == -1

\* The address of binding slot b, when it is stored where a face pointer
\* belongs: distinct from NULL and from every face of the registry.
SlotAddr(b) == 0 - b

\* ------------------------------------------------------------------ state
VARIABLES
    _fib,        \* _fib[i] = [prefix, plen, fib_faces]
    _fib_faces,  \* _fib_faces[b] = the face member of binding slot b
    last         \* the last call: its arguments, result and what it did

vars == <<_fib, _fib_faces, last>>

\* A zeroed entry slot (memset 0): no prefix, plen 0, empty list.
FreeEntry == [prefix |-> NoPrefix, plen |-> 0, fib_faces |-> << >>]

Occupied(f, i) == f[i].prefix # NoPrefix

\* The faces an entry's list holds, as the set of face members of its bindings.
FaceSet(f, ff, i) == {ff[f[i].fib_faces[k]] : k \in 1..Len(f[i].fib_faces)}

\* --------------------------------------------------- external collaborators
RECURSIVE CompareFrom(_, _, _)
CompareFrom(lhs, rhs, k) ==
    IF k > Len(lhs) /\ k > Len(rhs) THEN 0
    ELSE IF k > Len(lhs) THEN -2
    ELSE IF k > Len(rhs) THEN 2
    ELSE IF lhs[k] < rhs[k] THEN -1
    ELSE IF lhs[k] > rhs[k] THEN 1
    ELSE CompareFrom(lhs, rhs, k + 1)

\* The name comparator: 0 equal, -2 lhs is a proper prefix of rhs, 2 rhs is a
\* proper prefix of lhs, -1 / 1 otherwise ordered.
ndn_name_compare_block(lhs, rhs) == CompareFrom(lhs, rhs, 1)

\* The verdicts the comparator can return when it is handed memory that holds
\* no name (the block of a NULL prefix, or a released block that was freed).
\* Its error codes 3 and -3 take the same branch as 1 and -1 in every caller.
GarbageVerdicts == {-2, -1, 0, 1, 2}

\* The number of components of a name.
ndn_name_get_size_from_block(name) == Len(name)

\* Release of a shared block: the count after the call (freed at zero).
ndn_shared_block_release(ref) == ref - 1

\* ------------------------------------------------------ _fib_entry_add_face
SetMin(S) == CHOOSE x \in S : \A y \in S : x <= y

FreeFaceSlots(ff) == {b \in FaceSlots : ff[b] = NULL}

\* _fib_entry_add_face without the scan of lines 37-42: the face gets a new
\* binding whether or not the list already has one for it.
fib_entry_add_face_NoDedup(t, i, face) ==
    IF FreeFaceSlots(t.faces) = {}
    THEN [t EXCEPT !.ok = FALSE]
    ELSE LET b == SetMin(FreeFaceSlots(t.faces))
         IN [t EXCEPT !.fib[i].fib_faces = Append(@, b),
                      !.faces[b] = face,
                      !.ok = TRUE]

\* _fib_entry_add_face without the return of line 48: every free binding slot
\* is taken and appended, and the helper reports failure.
fib_entry_add_face_NoReturn(t, i, face) ==
    IF \E k \in 1..Len(t.fib[i].fib_faces) : t.faces[t.fib[i].fib_faces[k]] = face
    THEN [t EXCEPT !.ok = TRUE]
    ELSE LET free == FreeFaceSlots(t.faces)
             RECURSIVE Take(_)
             Take(b) ==
                 IF b > NDN_FIB_FACE_ENTRIES_NUMOF THEN << >>
                 ELSE IF b \in free THEN <<b>> \o Take(b + 1)
                 ELSE Take(b + 1)
         IN [t EXCEPT !.fib[i].fib_faces = @ \o Take(1),
                      !.faces = [b \in FaceSlots |->
                                    IF b \in free THEN face ELSE t.faces[b]],
                      !.ok = FALSE]

\* t is a record with the fields fib (the entry pool), faces (the binding
\* pool) and ok (the result); attaches face to the list of entry slot i.
fib_entry_add_face(t, i, face) ==
    IF \E k \in 1..Len(t.fib[i].fib_faces) : t.faces[t.fib[i].fib_faces[k]] = face
    THEN [t EXCEPT !.ok = TRUE]
    ELSE IF FreeFaceSlots(t.faces) = {}
    THEN [t EXCEPT !.ok = FALSE]
    ELSE LET b == SetMin(FreeFaceSlots(t.faces))
         IN [t EXCEPT !.fib[i].fib_faces = Append(@, b),
                      !.faces[b] = face,
                      !.ok = TRUE]

\* ------------------------------------------------------------ ndn_fib_remove
RECURSIVE ClearSlots(_, _)
ClearSlots(ff, lst) ==
    IF lst = << >> THEN ff
    ELSE ClearSlots([ff EXCEPT ![Head(lst)] = NULL], Tail(lst))

\* ndn_fib_remove without line 173: the bindings are unlinked, not zeroed.
ndn_fib_remove_NoClear(t, i) == [t EXCEPT !.fib[i] = FreeEntry]

\* Unlinks and zeroes every binding of entry i, releases its prefix and
\* zeroes the entry.  t is a record with the fields fib and faces.
ndn_fib_remove(t, i) ==
    [t EXCEPT !.fib[i] = FreeEntry,
              !.faces = ClearSlots(t.faces, t.fib[i].fib_faces)]

\* --------------------------------------------------------------- ndn_fib_add
\* The state of one ndn_fib_add call: the pools, the locals of the function,
\* the reference count of the caller's block (ref), and what the call did:
\* released counts its releases of the caller's prefix, stored is the slot
\* that holds the prefix at return, nullcmp says the comparator was handed
\* the prefix of a free slot, uaf says the prefix was read after its release.
AddStart(prefix, face, ref) ==
    [fib |-> _fib, faces |-> _fib_faces, ok |-> TRUE,
     first_free |-> NULL, max |-> NULL, max_plen |-> -1, match_found |-> FALSE,
     ref |-> ref, released |-> 0, stored |-> NULL,
     nullcmp |-> FALSE, uaf |-> FALSE,
     done |-> FALSE, ret |-> 0, why |-> "running"]

Return(st, ret, why) == [st EXCEPT !.done = TRUE, !.ret = ret, !.why = why]

Release(st) ==
    [st EXCEPT !.ref = ndn_shared_block_release(@), !.released = @ + 1]

\* The verdicts of line 72 for slot i.  The slot's prefix is NULL for every
\* free slot but the first, and the caller's block is freed once a release
\* has brought its count to zero: the comparator then reads memory that
\* holds no name.
AddVerdicts(st, i, prefix) ==
    IF st.fib[i].prefix = NoPrefix \/ (st.released > 0 /\ st.ref <= 0)
    THEN GarbageVerdicts
    ELSE {ndn_name_compare_block(prefix, st.fib[i].prefix)}

AddNote(st, i) ==
    [st EXCEPT !.nullcmp = @ \/ st.fib[i].prefix = NoPrefix,
               !.uaf = @ \/ st.released > 0]

\* AddBranch without line 83: an identical name is not recorded as found.
AddBranch_NoMatchFound(st, i, r, face) ==
    IF r = 0 THEN
        LET s == fib_entry_add_face(Release(st), i, face)
        IN IF ~s.ok THEN Return(s, -1, "attach_exact") ELSE s
    ELSE IF r = -2 THEN
        LET s == fib_entry_add_face(st, i, face)
        IN IF ~s.ok THEN Return(s, -1, "attach_child") ELSE s
    ELSE IF r = 2 /\ st.fib[i].plen > st.max_plen THEN
        [st EXCEPT !.max_plen = st.fib[i].plen, !.max = i]
    ELSE st

\* The branches of lines 73-102 on the verdict r for slot i.
AddBranch(st, i, r, face) ==
    IF r = 0 THEN
        LET s == fib_entry_add_face(Release(st), i, face)
        IN IF ~s.ok THEN Return(s, -1, "attach_exact")
           ELSE [s EXCEPT !.match_found = TRUE]
    ELSE IF r = -2 THEN
        LET s == fib_entry_add_face(st, i, face)
        IN IF ~s.ok THEN Return(s, -1, "attach_child") ELSE s
    ELSE IF r = 2 /\ st.fib[i].plen > st.max_plen THEN
        [st EXCEPT !.max_plen = st.fib[i].plen, !.max = i]
    ELSE st

\* AddInherit without line 133: a failed copy returns -1 and leaves the new
\* entry, with what it has inherited so far, in the table.
RECURSIVE AddInherit_NoRollback(_, _, _)
AddInherit_NoRollback(st, e, lst) ==
    IF lst = << >> THEN Return(st, 0, "created")
    ELSE LET s == fib_entry_add_face(st, e, SlotAddr(Head(lst)))
         IN IF ~s.ok
            THEN Return(s, -1, "attach_copy")
            ELSE AddInherit_NoRollback(s, e, Tail(lst))

\* Lines 128-137: attach the bindings of max's list, in order, to entry e.
\* The second argument of the attach is tmp, the binding, not tmp->face.
RECURSIVE AddInherit(_, _, _)
AddInherit(st, e, lst) ==
    IF lst = << >> THEN Return(st, 0, "created")
    ELSE LET s == fib_entry_add_face(st, e, SlotAddr(Head(lst)))
         IN IF ~s.ok
            THEN Return([Release(ndn_fib_remove(s, e)) EXCEPT !.stored = NULL],
                        -1, "attach_copy")
            ELSE AddInherit(s, e, Tail(lst))

\* Lines 105-141, after the scan.
AddTail(st, prefix, face) ==
    IF st.match_found THEN Return(st, 0, "exact")
    ELSE IF st.first_free = NULL THEN Return(st, -1, "entry_full")
    ELSE LET e == st.first_free
             s1 == [st EXCEPT !.fib[e] =
                        [prefix |-> prefix,
                         plen |-> ndn_name_get_size_from_block(prefix),
                         fib_faces |-> << >>],
                    !.stored = e]
             s2 == fib_entry_add_face(s1, e, face)
         IN IF ~s2.ok
            THEN Return([Release(s2) EXCEPT !.fib[e] = FreeEntry,
                                            !.stored = NULL],
                        -1, "attach_new")
            ELSE IF st.max # NULL
            THEN AddInherit(s2, e, st.fib[st.max].fib_faces)
            ELSE Return(s2, 0, "created")

\* Lines 65-103: the scan from slot i on.  The set of the states the call can
\* return in: one state, unless a comparison reads memory that holds no name.
RECURSIVE AddScan(_, _, _, _)
AddScan(st, i, prefix, face) ==
    IF i > NDN_FIB_ENTRIES_NUMOF THEN {AddTail(st, prefix, face)}
    ELSE IF st.fib[i].prefix = NoPrefix /\ st.first_free = NULL
    THEN AddScan([st EXCEPT !.first_free = i], i + 1, prefix, face)
    ELSE UNION { LET s == AddBranch(AddNote(st, i), i, r, face)
                 IN IF s.done THEN {s} ELSE AddScan(s, i + 1, prefix, face)
                 : r \in AddVerdicts(st, i, prefix) }

ndn_fib_add(prefix, face, ref) == AddScan(AddStart(prefix, face, ref), 1, prefix, face)

\* ------------------------------------------------------------ ndn_fib_lookup
\* st = [max_plen, hit, nullcmp]: hit says line 155 assigned max.
LookupVerdicts(i, name) ==
    IF _fib[i].prefix = NoPrefix THEN GarbageVerdicts
    ELSE {ndn_name_compare_block(_fib[i].prefix, name)}

LookupBranch(st, i, r) ==
    LET s == [st EXCEPT !.nullcmp = @ \/ _fib[i].prefix = NoPrefix]
    IN IF r \in {0, -2} /\ _fib[i].plen > s.max_plen
       THEN [s EXCEPT !.max_plen = _fib[i].plen, !.hit = TRUE]
       ELSE s

RECURSIVE LookupScan(_, _, _)
LookupScan(st, i, name) ==
    IF i > NDN_FIB_ENTRIES_NUMOF THEN {st}
    ELSE UNION { LookupScan(LookupBranch(st, i, r), i + 1, name)
                 : r \in LookupVerdicts(i, name) }

\* The values of the local `entry`, which line 155 reads and no line sets.
UninitEntry == (0..NDN_FIB_ENTRIES_NUMOF) \cup {WildPtr}

\* The pairs <<returned pointer, nullcmp>> of a lookup of name.
ndn_fib_lookup(name) ==
    UNION { IF st.hit THEN {<<p, st.nullcmp>> : p \in UninitEntry}
            ELSE {<<NULL, st.nullcmp>>}
            : st \in LookupScan([max_plen |-> -1, hit |-> FALSE,
                                 nullcmp |-> FALSE], 1, name) }

\* ------------------------------------------------------- ndn_fib_remove_face
\* RemoveFaceAt without lines 189-191: an entry whose last binding was
\* unlinked stays in the table.
RemoveFaceAt_KeepEmpty(t, i, face) ==
    [t EXCEPT !.fib[i].fib_faces =
                  SelectSeq(t.fib[i].fib_faces, LAMBDA b : t.faces[b] # face)]

\* Lines 184-193 for entry i: every binding of the list that references face
\* is unlinked (LL_DELETE) and, if the list is then empty, the entry removed.
\* The unlinked binding keeps its face member.
RemoveFaceAt(t, i, face) ==
    LET lst  == t.fib[i].fib_faces
        keep == SelectSeq(lst, LAMBDA b : t.faces[b] # face)
    IN IF keep = lst THEN t
       ELSE IF keep = << >>
       THEN ndn_fib_remove([t EXCEPT !.fib[i].fib_faces = keep], i)
       ELSE [t EXCEPT !.fib[i].fib_faces = keep]

RECURSIVE RemoveFaceScan(_, _, _)
RemoveFaceScan(t, i, face) ==
    IF i > NDN_FIB_ENTRIES_NUMOF THEN t
    ELSE RemoveFaceScan(RemoveFaceAt(t, i, face), i + 1, face)

ndn_fib_remove_face(face) ==
    RemoveFaceScan([fib |-> _fib, faces |-> _fib_faces], 1, face)

\* ------------------------------------------------------------------ actions
NoCall ==
    [op |-> "none", name |-> NoPrefix, face |-> NULL, entry |-> NULL,
     ret |-> 0, why |-> "", ref_in |-> 0, released |-> 0, stored |-> NULL,
     nullcmp |-> FALSE, uaf |-> FALSE]

\* The static pools are zero-initialised; ndn_fib_init has run.
Init ==
    /\ _fib = [i \in EntrySlots |-> FreeEntry]
    /\ _fib_faces = [b \in FaceSlots |-> NULL]
    /\ last = NoCall

Insert ==
    \E prefix \in InsertNames, face \in Faces, ref \in 1..MaxRef :
      \E out \in ndn_fib_add(prefix, face, ref) :
        /\ _fib' = out.fib
        /\ _fib_faces' = out.faces
        /\ last' = [NoCall EXCEPT !.op = "insert", !.name = prefix,
                       !.face = face, !.ret = out.ret, !.why = out.why,
                       !.ref_in = ref, !.released = out.released,
                       !.stored = out.stored, !.nullcmp = out.nullcmp,
                       !.uaf = out.uaf]

Lookup ==
    \E name \in QueryNames :
      \E res \in ndn_fib_lookup(name) :
        /\ last' = [NoCall EXCEPT !.op = "lookup", !.name = name,
                       !.entry = res[1], !.nullcmp = res[2]]
        /\ UNCHANGED <<_fib, _fib_faces>>

\* ndn_fib_remove on an occupied entry.
Remove ==
    \E i \in EntrySlots :
        /\ Occupied(_fib, i)
        /\ LET out == ndn_fib_remove([fib |-> _fib, faces |-> _fib_faces], i)
           IN /\ _fib' = out.fib
              /\ _fib_faces' = out.faces
        /\ last' = [NoCall EXCEPT !.op = "remove", !.entry = i,
                       !.name = _fib[i].prefix, !.released = 1]

RemoveFace ==
    \E face \in Faces :
        /\ LET out == ndn_fib_remove_face(face)
           IN /\ _fib' = out.fib
              /\ _fib_faces' = out.faces
        /\ last' = [NoCall EXCEPT !.op = "removeFace", !.face = face]

Next == Insert \/ Lookup \/ Remove \/ RemoveFace

Spec == Init /\ [][Next]_vars

\* ------------------------------------------------------------ vocabulary
\* a is a proper ancestor of b: a proper prefix of it.
IsAncestor(a, b) == ndn_name_compare_block(a, b) = -2

OccupiedSlots(f) == {i \in EntrySlots : Occupied(f, i)}

\* The occupied entries whose prefix equals name or is a proper ancestor of it.
Matching(f, name) ==
    {i \in OccupiedSlots(f) : ndn_name_compare_block(f[i].prefix, name) \in {0, -2}}

\* The members of S of greatest prefix length.
Longest(f, S) == {m \in S : \A j \in S : f[j].plen <= f[m].plen}

\* p is the entry of greatest prefix length that matches name, or NULL if no
\* entry matches.
IsLongestMatch(f, name, p) ==
    IF Matching(f, name) = {} THEN p = NULL
    ELSE p \in Longest(f, Matching(f, name))

\* The entries whose list links binding slot b.
Linking(f, b) ==
    {i \in EntrySlots : \E k \in 1..Len(f[i].fib_faces) : f[i].fib_faces[k] = b}

UsedFaceSlots(ff) == {b \in FaceSlots : ff[b] # NULL}

\* What a caller can observe of the table: the occupied prefixes with their
\* face sets, and the number of occupied binding slots.
TableView(f, ff) ==
    <<{<<f[i].prefix, FaceSet(f, ff, i)>> : i \in OccupiedSlots(f)},
      Cardinality(UsedFaceSlots(ff))>>

\* The occupancy of both pools and the prefix and face set of every entry.
Occupancy(f, ff) ==
    <<OccupiedSlots(f), UsedFaceSlots(ff),
      [i \in OccupiedSlots(f) |-> <<f[i].prefix, FaceSet(f, ff, i)>>]>>

BindingExhausted ==
    {"attach_exact", "attach_child", "attach_new", "attach_copy"}

\* ------------------------------------------------------------------ claims
\* C1: a lookup returns the occupied entry of greatest prefix length among
\* those whose prefix equals the name or is a proper ancestor of it, and NULL
\* when no occupied entry qualifies.
C1_LookupLongestMatch ==
    last.op = "lookup" => IsLongestMatch(_fib, last.name, last.entry)

\* C2: an insert that creates an entry for p while some occupied entry is a
\* proper ancestor of p gives the new entry exactly the inserted face and the
\* faces of the ancestor of greatest prefix length.
C2_ParentInherit ==
    (last.op = "insert" /\ last.why = "created") =>
        LET e == last.stored
            anc == {i \in OccupiedSlots(_fib) \ {e} :
                        IsAncestor(_fib[i].prefix, last.name)}
        IN \A m \in Longest(_fib, anc) :
              FaceSet(_fib, _fib_faces, e)
                  = {last.face} \cup FaceSet(_fib, _fib_faces, m)

\* C3: after a successful insert(p, F) the entry whose prefix is p contains F,
\* and every occupied entry below p contains F and every face it had before.
C3_ChildInherit ==
    [][ (last'.op = "insert" /\ last'.ret = 0) =>
          /\ \E i \in OccupiedSlots(_fib') :
                /\ _fib'[i].prefix = last'.name
                /\ last'.face \in FaceSet(_fib', _fib_faces', i)
          /\ \A i \in OccupiedSlots(_fib') :
                IsAncestor(last'.name, _fib'[i].prefix)
                    => last'.face \in FaceSet(_fib', _fib_faces', i)
          /\ \A i \in OccupiedSlots(_fib) :
                IsAncestor(last'.name, _fib[i].prefix)
                    => /\ _fib'[i].prefix = _fib[i].prefix
                       /\ FaceSet(_fib, _fib_faces, i)
                              \subseteq FaceSet(_fib', _fib_faces', i) ]_vars

\* C4: no two occupied entry slots hold equal prefixes.
C4_DistinctPrefixes ==
    \A i, j \in OccupiedSlots(_fib) :
        i # j => _fib[i].prefix # _fib[j].prefix

\* C4's case: an insert of a prefix that an entry already held, with both
\* entry slots occupied.
C4_Witness ==
    /\ last.op = "insert" /\ last.why = "exact" /\ last.released = 1
    /\ OccupiedSlots(_fib) = EntrySlots
    /\ \E i \in EntrySlots : _fib[i].prefix = last.name

\* C5: insert(p, F) repeated right after insert(p, F) leaves the table as the
\* first call left it.
C5_InsertIdempotent ==
    [][ (/\ last.op = "insert" /\ last'.op = "insert"
         /\ last'.name = last.name /\ last'.face = last.face)
        => TableView(_fib', _fib_faces') = TableView(_fib, _fib_faces) ]_vars

\* C6: after removeFace(F) no occupied entry has a binding to F, every entry
\* whose only face was F is free, and a lookup that follows returns the
\* longest matching entry that is left, or NULL.
C6_CascadingFaceRemoval ==
    [][ /\ last'.op = "removeFace" =>
            /\ \A i \in OccupiedSlots(_fib') :
                  last'.face \notin FaceSet(_fib', _fib_faces', i)
            /\ \A i \in OccupiedSlots(_fib) :
                  FaceSet(_fib, _fib_faces, i) = {last'.face}
                      => ~Occupied(_fib', i)
        /\ (last.op = "removeFace" /\ last'.op = "lookup") =>
              IsLongestMatch(_fib', last'.name, last'.entry) ]_vars

\* C7: a binding slot is occupied iff it is linked in the list of exactly one
\* occupied entry, and after removeFace(F) no binding slot references F.
C7_BindingPoolReclaimed ==
    /\ \A b \in FaceSlots :
          _fib_faces[b] # NULL <=>
              /\ Cardinality(Linking(_fib, b)) = 1
              /\ Linking(_fib, b) \subseteq OccupiedSlots(_fib)
    /\ last.op = "removeFace" =>
          \A b \in FaceSlots : _fib_faces[b] # last.face

\* C8: with every entry slot occupied, the insert of a prefix that no entry
\* holds fails and leaves the occupancy of both pools and every face set as
\* they were.
C8_EntryPoolExhaustionClean ==
    [][ (/\ last'.op = "insert"
         /\ OccupiedSlots(_fib) = EntrySlots
         /\ \A i \in EntrySlots : _fib[i].prefix # last'.name)
        => /\ last'.ret = -1
           /\ Occupancy(_fib', _fib_faces') = Occupancy(_fib, _fib_faces) ]_vars

\* C9: an insert that fails because no binding slot is free leaves the face
\* set of every entry and the occupancy of both pools as they were.
C9_NoPartialSuccess ==
    [][ (last'.op = "insert" /\ last'.why \in BindingExhausted)
        => Occupancy(_fib', _fib_faces') = Occupancy(_fib, _fib_faces) ]_vars

\* C10: a successful insert(p, F) while an entry already holds p releases the
\* caller's block exactly once, stores it nowhere, and the entry keeps its
\* prefix.
C10_ExactMatchOwnership ==
    [][ \A i \in OccupiedSlots(_fib) :
          (/\ last'.op = "insert" /\ last'.ret = 0
           /\ _fib[i].prefix = last'.name)
          => /\ last'.released = 1
             /\ last'.stored = NULL
             /\ _fib'[i].prefix = _fib[i].prefix ]_vars

\* C11: every insert consumes the transferred prefix reference exactly once:
\* at return it was released once and is stored nowhere, or it was never
\* released and one occupied entry holds it.
C11_PrefixConsumedOnce ==
    last.op = "insert" =>
        \/ last.released = 1 /\ last.stored = NULL
        \/ /\ last.released = 0 /\ last.stored # NULL
           /\ _fib[last.stored].prefix = last.name

\* ------------------------------------------------------------- ndn_fib_init
\* Lines 162-165: zeroes the entry pool.  t is a record with the fields fib
\* and faces.
ndn_fib_init(t) == [t EXCEPT !.fib = [i \in EntrySlots |-> FreeEntry]]

\* ndn_fib_init called on whatever the pools hold.
FibInit ==
    /\ LET out == ndn_fib_init([fib |-> _fib, faces |-> _fib_faces])
       IN /\ _fib' = out.fib
          /\ _fib_faces' = out.faces
    /\ last' = [NoCall EXCEPT !.op = "init"]

NextInit == Insert \/ Lookup \/ Remove \/ RemoveFace \/ FibInit

\* The table with ndn_fib_init callable at any time.
SpecInit == Init /\ [][NextInit]_vars

\* C12: after ndn_fib_init every entry slot is free and every binding slot is
\* free, whatever the pools held before.
C12_InitClearsBothPools ==
    last.op = "init" =>
        /\ \A i \in EntrySlots : _fib[i] = FreeEntry
        /\ \A b \in FaceSlots : _fib_faces[b] = NULL

\* C13: ndn_fib_remove on an occupied entry e frees every binding slot of e's
\* list and e's slot, releases e's prefix exactly once, and leaves the prefix
\* and the face set of every other entry as they were.
C13_RemoveReclaims ==
    [][ last'.op = "remove" =>
          LET e == last'.entry
          IN /\ \A k \in 1..Len(_fib[e].fib_faces) :
                    _fib_faces'[_fib[e].fib_faces[k]] = NULL
             /\ _fib'[e] = FreeEntry
             /\ last'.released = 1
             /\ \A i \in EntrySlots \ {e} :
                    /\ _fib'[i].prefix = _fib[i].prefix
                    /\ FaceSet(_fib', _fib_faces', i)
                           = FaceSet(_fib, _fib_faces, i) ]_vars

\* C13's case: an entry was removed and its bindings are free again, while
\* another entry is occupied and holds a face.
C13_Witness ==
    /\ last.op = "remove"
    /\ ~Occupied(_fib, last.entry)
    /\ FreeFaceSlots(_fib_faces) # {}
    /\ \E i \in OccupiedSlots(_fib) : FaceSet(_fib, _fib_faces, i) # {}


\* C14: between calls, after any sequence of inserts (failed ones included),
\* removes and face removals, every occupied entry has a non-empty face list.
C14_NoEmptyEntry ==
    \A i \in OccupiedSlots(_fib) : _fib[i].fib_faces # << >>

\* C14's case: a face removal has just emptied and removed one entry (its
\* binding still holds the face, linked nowhere) and left another occupied.
C14_Witness ==
    /\ last.op = "removeFace"
    /\ OccupiedSlots(_fib) # {}
    /\ OccupiedSlots(_fib) # EntrySlots
    /\ \E b \in FaceSlots : _fib_faces[b] = last.face /\ Linking(_fib, b) = {}


\* C15: in every reachable state no two bindings of one entry's list reference
\* the same face, also for an entry that insert(p, F) has just created below
\* an ancestor whose list already contains F.
C15_NoDuplicateFace ==
    \A i \in EntrySlots :
        \A k1, k2 \in 1..Len(_fib[i].fib_faces) :
            k1 # k2 =>
                _fib_faces[_fib[i].fib_faces[k1]] # _fib_faces[_fib[i].fib_faces[k2]]

\* C15's case: insert(p, F) has just created an entry for p, and an occupied
\* ancestor of p has F in its list.
C15_Witness ==
    /\ last.op = "insert"
    /\ last.why = "created"
    /\ Len(_fib[last.stored].fib_faces) >= 2
    /\ \E a \in OccupiedSlots(_fib) :
          /\ IsAncestor(_fib[a].prefix, last.name)
          /\ last.face \in FaceSet(_fib, _fib_faces, a)


\* C16: when insert(p, F) has claimed a free entry slot for p and then fails
\* for want of a binding slot, on the first attach of F or while copying the
\* ancestor's list, then at return the claimed slot (the first free slot of
\* the pool) is free again, no occupied entry has prefix p, no binding slot
\* taken during the call is left to the new entry or outside every list, and
\* the prefix has been released exactly once.
C16_NewEntryRollback ==
    [][ (last'.op = "insert" /\ last'.why \in {"attach_new", "attach_copy"}) =>
          LET e == SetMin(EntrySlots \ OccupiedSlots(_fib))
          IN /\ last'.ret = -1
             /\ _fib'[e] = FreeEntry
             /\ \A i \in OccupiedSlots(_fib') : _fib'[i].prefix # last'.name
             /\ \A b \in FaceSlots :
                   (_fib_faces[b] = NULL /\ _fib_faces'[b] # NULL) =>
                       /\ Linking(_fib', b) # {}
                       /\ e \notin Linking(_fib', b)
             /\ last'.released = 1
             /\ last'.stored = NULL ]_vars

\* C16's case: an insert below an occupied ancestor attached F to its new
\* entry, ran out of binding slots while copying, and has returned.
C16_Witness ==
    /\ last.op = "insert"
    /\ last.why = "attach_copy"
    /\ \E a \in OccupiedSlots(_fib) : IsAncestor(_fib[a].prefix, last.name)
    /\ FreeFaceSlots(_fib_faces) # {}

\* The other case of C16: the first attach of F to the new entry failed.
C16_WitnessFirstAttach ==
    /\ last.op = "insert"
    /\ last.why = "attach_new"
    /\ OccupiedSlots(_fib) # EntrySlots


\* ------------------------------------------------- the attach helper alone
\* What _fib_entry_add_face is handed as its second argument at lines 75, 91
\* and 121.  The binding addresses of line 131 reach it through Insert.
AttachArgs == Faces

\* One call of _fib_entry_add_face on entry slot i; ret is 1 for true and 0
\* for false.
Attach ==
    \E i \in EntrySlots, face \in AttachArgs :
        LET out == fib_entry_add_face(
                       [fib |-> _fib, faces |-> _fib_faces, ok |-> TRUE], i, face)
        IN /\ _fib' = out.fib
           /\ _fib_faces' = out.faces
           /\ last' = [NoCall EXCEPT !.op = "attach", !.entry = i,
                          !.face = face, !.ret = IF out.ok THEN 1 ELSE 0]

NextAttach == Insert \/ Remove \/ RemoveFace \/ Attach

SpecAttach == Init /\ [][NextAttach]_vars

\* C17: the attach helper, when the face is already in the entry's list,
\* succeeds and changes nothing; otherwise, when no binding slot is free, it
\* fails and changes nothing; otherwise it succeeds, writes the face into
\* exactly one binding slot that was free, appends that slot to the entry's
\* list and changes nothing else of either pool.
C17_AttachFrame ==
    [][ last'.op = "attach" =>
          LET i    == last'.entry
              face == last'.face
              lst  == _fib[i].fib_faces
          IN IF \E k \in 1..Len(lst) : _fib_faces[lst[k]] = face
             THEN last'.ret = 1 /\ UNCHANGED <<_fib, _fib_faces>>
             ELSE IF FreeFaceSlots(_fib_faces) = {}
             THEN last'.ret = 0 /\ UNCHANGED <<_fib, _fib_faces>>
             ELSE /\ last'.ret = 1
                  /\ \E b \in FreeFaceSlots(_fib_faces) :
                        /\ _fib_faces' = [_fib_faces EXCEPT ![b] = face]
                        /\ _fib' = [_fib EXCEPT ![i].fib_faces = Append(lst, b)]
      ]_vars

\* C17's case: the helper was called with the binding pool exhausted and has
\* failed, on an occupied entry that has other faces.
C17_Witness ==
    /\ last.op = "attach"
    /\ last.ret = 0
    /\ Occupied(_fib, last.entry)
    /\ FreeFaceSlots(_fib_faces) = {}

\* The other cases of C17: a new binding was appended to an occupied entry
\* that had one already; the face was already in the list.
C17_WitnessAppended ==
    /\ last.op = "attach"
    /\ last.ret = 1
    /\ Occupied(_fib, last.entry)
    /\ Len(_fib[last.entry].fib_faces) >= 2
    /\ _fib_faces[_fib[last.entry].fib_faces[Len(_fib[last.entry].fib_faces)]]
           = last.face

C17_WitnessPresent ==
    /\ last.op = "attach"
    /\ last.ret = 1
    /\ Len(_fib[last.entry].fib_faces) >= 1
    /\ _fib_faces[_fib[last.entry].fib_faces[1]] = last.face


\* C18: insert and lookup hand the comparator the prefix of an entry slot
\* only if that slot is occupied; no call has compared a free slot.
C18_ComparatorOnlyOnOccupied ==
    last.op \in {"insert", "lookup"} => ~last.nullcmp

\* C19: within one insert the caller's prefix block is not read after the
\* call has released it.
C19_NoReadAfterRelease ==
    last.op = "insert" => ~last.uaf

\* C20: for every two occupied entries A and B where A's prefix is a proper
\* ancestor of B's, every face bound to A is also bound to B.
C20_InheritanceClosure ==
    \A a, b \in OccupiedSlots(_fib) :
        IsAncestor(_fib[a].prefix, _fib[b].prefix) =>
            FaceSet(_fib, _fib_faces, a) \subseteq FaceSet(_fib, _fib_faces, b)

====
